---------------------------- MODULE Spec2Model ----------------------------
(***************************************************************************)
(* A model of the data access layer of the attendance system               *)
(* (src/database.py, class AttendanceSystemDB) over its SQLite schema.     *)
(*                                                                         *)
(* The database is the pair of tables users / attendance together with    *)
(* the two AUTOINCREMENT counters of sqlite_sequence.  Every thread of     *)
(* Threads calls the operations of one AttendanceSystemDB instance through *)
(* its own connection.  A statement is atomic; mark_attendance, the only   *)
(* operation that runs several statements, is cut at its statements, so    *)
(* that other threads' operations interleave between them.                 *)
(*                                                                         *)
(* Text values (names, roles, statuses) are sequences of one-character     *)
(* strings, so that str.lower() and str.strip() are computed.  Dates are   *)
(* day numbers: ISO dates compared as text order like the days they name.  *)
(* A nullable column or an optional argument is None or Some(v).           *)
(***************************************************************************)
EXTENDS Integers, Sequences, FiniteSets, TLC

VARIABLES
    users,       \* the rows of table users: [id, name, role]
    attendance,  \* the rows of table attendance
    user_seq,    \* sqlite_sequence.seq of users (AUTOINCREMENT)
    att_seq,     \* sqlite_sequence.seq of attendance (AUTOINCREMENT)
    pc,          \* pc[t]: the statement thread t is about to run
    frame,       \* frame[t]: the arguments and locals of t's call in progress
    last,        \* the call that completed most recently, with its outcome
    thread_local,\* thread_local[t]: thread t's attribute conn, None if unset
    conn_seq,    \* conn_seq[t]: how many connections thread t has opened
    session      \* what the page on display keeps between its runs:
                 \* st.session_state, its widgets, the files it writes

vars == <<users, attendance, user_seq, att_seq, pc, frame, last,
          thread_local, conn_seq, session>>

----------------------------------------------------------------------------
(* Bounds of the model *)

\* the largest number of rows ever inserted into users
MaxUsers == 2
\* the largest number of rows ever inserted into attendance
MaxRecords == 2
\* the last of the dates of the stored records the queries are run on
MaxDate == 3
\* the largest number of stored records the queries are run on
MaxStored == 3
\* connections one thread opens
MaxConnections == 2
\* times the settings page writes its reset flag file
MaxResets == 2

Threads == {1, 2}
\* the user ids a caller passes; ids start at 1 (AUTOINCREMENT)
UserIds == 1..MaxUsers
\* the dates a caller passes
Dates == {1}

----------------------------------------------------------------------------
(* Optional values *)

None == <<>>
Some(v) == <<v>>

----------------------------------------------------------------------------
(* Text *)

UpperLetters ==
    <<"A","B","C","D","E","F","G","H","I","J","K","L","M",
      "N","O","P","Q","R","S","T","U","V","W","X","Y","Z">>
LowerLetters ==
    <<"a","b","c","d","e","f","g","h","i","j","k","l","m",
      "n","o","p","q","r","s","t","u","v","w","x","y","z">>

Whitespace == {" "}

\* str.lower() on one character
LowerChar(c) ==
    IF \E i \in DOMAIN UpperLetters : UpperLetters[i] = c
    THEN LowerLetters[CHOOSE i \in DOMAIN UpperLetters : UpperLetters[i] = c]
    ELSE c

\* str.lower()
Lower(s) == [i \in DOMAIN s |-> LowerChar(s[i])]

RECURSIVE LStrip(_)
LStrip(s) ==
    IF s # <<>> /\ Head(s) \in Whitespace THEN LStrip(Tail(s)) ELSE s

RECURSIVE RStrip(_)
RStrip(s) ==
    IF s # <<>> /\ s[Len(s)] \in Whitespace
    THEN RStrip(SubSeq(s, 1, Len(s) - 1))
    ELSE s

\* str.strip()
Strip(s) == RStrip(LStrip(s))

student == <<"s","t","u","d","e","n","t">>
employee == <<"e","m","p","l","o","y","e","e">>
admin == <<"a","d","m","i","n">>
present == <<"p","r","e","s","e","n","t">>
absent == <<"a","b","s","e","n","t">>
late == <<"l","a","t","e">>

\* the tuples of the two membership tests and of the two CHECK constraints
Roles == {student, employee, admin}
Statuses == {present, absent, late}


----------------------------------------------------------------------------
(* The arguments the callers pass *)

NameInputs == { <<>>, <<" ">>, <<" ","a"," ">> }
RoleInputs == { <<>>, <<"A","d","m","i","n">>, <<"t","e","a","c","h","e","r">> }

\* status, check_in, check_out, notes of a call of mark_attendance;
\* check_in and check_out are "HH:MM:SS" texts, written <<h, m, s>>
MarkInputs ==
    { [status |-> present, check_in |-> Some(<<9, 0, 0>>),
       check_out |-> Some(<<17, 0, 0>>), notes |-> Some("n")],
      [status |-> <<"L","A","T","E">>, check_in |-> None, check_out |-> None,
       notes |-> None],
      [status |-> <<"s","i","c","k">>, check_in |-> None, check_out |-> None,
       notes |-> None] }

----------------------------------------------------------------------------
(* Outcomes of a call *)

Ok(v) == [kind |-> "ok", value |-> v]
\* raise ValueError(...): which of the four messages
ValueError(which) == [kind |-> "ValueError", value |-> which]
\* sqlite3.IntegrityError, re-raised after conn.rollback(): which constraint
IntegrityError(which) == [kind |-> "IntegrityError", value |-> which]

NoCall ==
    [op |-> "none", args |-> <<>>, result |-> [kind |-> "none", value |-> 0]]

\* a call of op returns (or raises) result; the args of a call of
\* mark_attendance that reached its UPDATE or INSERT include its local existing
Return(op, args, result) ==
    last' = [op |-> op, args |-> args, result |-> result]

----------------------------------------------------------------------------
(* The schema: create_tables *)

\* users.role ... CHECK(role IN ('student', 'employee', 'admin'))
RoleCheckOk(role) == role \in Roles

\* attendance.status ... CHECK(status IN ('present', 'absent', 'late'))
StatusCheckOk(status) == status \in Statuses

\* the foreign key not enforced (PRAGMA foreign_keys left off)
ForeignKeyOk_Off(user_id) == TRUE

\* FOREIGN KEY (user_id) REFERENCES users (id), with PRAGMA foreign_keys = ON
ForeignKeyOk(user_id) == \E u \in users : u.id = user_id

\* the table without its UNIQUE(user_id, date)
UniqueOk_Off(user_id, date) == TRUE

\* UNIQUE(user_id, date): may a row with this key be inserted?
UniqueOk(user_id, date) ==
    ~ \E a \in attendance : a.user_id = user_id /\ a.date = date

\* the foreign key without ON DELETE CASCADE
CascadeDelete_Off(user_id) == attendance

\* ... ON DELETE CASCADE: the attendance rows left when the users rows with
\* this id are deleted
CascadeDelete(user_id) == {a \in attendance : a.user_id # user_id}

\* an id without AUTOINCREMENT: one more than the greatest id of the table
NextUserId_MaxRowid ==
    IF users = {} THEN 1
    ELSE (CHOOSE i \in {u.id : u \in users} : \A u \in users : u.id <= i) + 1

\* id INTEGER PRIMARY KEY AUTOINCREMENT: the id the next inserted row gets
NextUserId == user_seq + 1

\* a failed statement whose rows stay written
Rollback_Off(table, written) == written

\* except sqlite3.Error: conn.rollback(); raise: the table a statement fails
\* on is left as it was before the statement, not as the statement would
\* have written it
Rollback(table, written) == table
NextAttendanceId == att_seq + 1

\* the file an AttendanceSystemDB is constructed on (__init__'s db_path),
\* and the file of a second instance
DbPath == "attendance.db"
OtherDbPath == "other.db"
DbPaths == {DbPath, OtherDbPath}

\* threading.local(): the attributes a thread sets are its own
Local_OfAllThreads(t) == 1
Local(t) == t

\* thread_local.conn as thread t sees it: None when hasattr(...) is false
Conn(t) == thread_local[Local(t)]

\* sqlite3.connect(db_path), with foreign keys on: a new connection object,
\* told from every other by the thread that opened it and its ordinal
Connect(t, db_path) ==
    [thread |-> t, n |-> conn_seq[t] + 1, db_path |-> db_path,
     closed |-> FALSE]

\* _get_db_connection of an instance on db_path: the thread's connection,
\* opened first when the thread has none
GetDbConnectionOf(t, db_path) ==
    IF Conn(t) = None
    THEN /\ conn_seq[t] < MaxConnections
         /\ thread_local' = [thread_local EXCEPT
                                 ![Local(t)] = Some(Connect(t, db_path))]
         /\ conn_seq' = [conn_seq EXCEPT ![t] = conn_seq[t] + 1]
    ELSE UNCHANGED <<thread_local, conn_seq>>

GetDbConnection(t) == GetDbConnectionOf(t, DbPath)

\* no page of the application is on display
NoPage == [page |-> "none"]

Init ==
    /\ users = {}
    /\ attendance = {}
    /\ user_seq = 0
    /\ att_seq = 0
    /\ pc = [t \in Threads |-> "idle"]
    /\ frame = [t \in Threads |-> <<>>]
    /\ last = NoCall
    /\ thread_local = [t \in Threads |-> None]
    /\ conn_seq = [t \in Threads |-> 0]
    /\ session = NoPage

\* a CREATE TABLE that replaces the table it finds
CreateTableIfNotExists_Replace(rows) == {}

\* CREATE TABLE IF NOT EXISTS on a table that exists: the statement does
\* nothing and the table keeps its rows
CreateTableIfNotExists(rows) == rows

\* create_tables, called again once the tables exist
CreateTables(t) ==
    /\ pc[t] = "idle"
    /\ GetDbConnection(t)
    /\ UNCHANGED session
    /\ users' = CreateTableIfNotExists(users)
    /\ attendance' = CreateTableIfNotExists(attendance)
    /\ Return("create_tables", <<>>, Ok(None))
    /\ UNCHANGED <<user_seq, att_seq, pc, frame>>

----------------------------------------------------------------------------
(* add_user *)

\* the role test left out
ValidRole_Off(role) == TRUE

\* if role.lower() not in ('student', 'employee', 'admin')
ValidRole(role) == Lower(role) \in Roles

\* the name bound as it was passed
StoredName_NoStrip(name) == name

\* the role bound as it was passed
StoredRole_NoLower(role) == role

\* the values bound to INSERT INTO users (name, role)
StoredName(name) == Strip(name)
StoredRole(role) == Lower(role)

AddUser(t) ==
    /\ pc[t] = "idle"
    /\ GetDbConnection(t)
    /\ UNCHANGED session
    /\ \E name \in NameInputs, role \in RoleInputs :
        LET args == [name |-> name, role |-> role] IN
        IF name = <<>> \/ role = <<>>
        THEN /\ Return("add_user", args, ValueError("empty"))
             /\ UNCHANGED <<users, user_seq>>
        ELSE IF ~ValidRole(role)
        THEN /\ Return("add_user", args, ValueError("role"))
             /\ UNCHANGED <<users, user_seq>>
        ELSE IF ~RoleCheckOk(StoredRole(role))
        THEN /\ Return("add_user", args, IntegrityError("check"))
             /\ users' = Rollback(users, users \cup
                    {[id |-> NextUserId, name |-> StoredName(name),
                      role |-> StoredRole(role)]})
             /\ UNCHANGED user_seq
        ELSE /\ user_seq < MaxUsers
             /\ users' = users \cup
                    {[id |-> NextUserId, name |-> StoredName(name),
                      role |-> StoredRole(role)]}
             /\ user_seq' = NextUserId
             /\ Return("add_user", args, Ok(NextUserId))
    /\ UNCHANGED <<attendance, att_seq, pc, frame>>

----------------------------------------------------------------------------
(* mark_attendance *)

\* the status test left out
ValidStatus_Off(status) == TRUE

\* if status.lower() not in ('present', 'absent', 'late')
ValidStatus(status) == Lower(status) \in Statuses

\* the user test left out
UserExists_Off(user_id) == TRUE

\* SELECT id FROM users WHERE id = ? ... cursor.fetchone()
UserExists(user_id) == \E u \in users : u.id = user_id

\* the value bound to status in the UPDATE and in the INSERT
StoredStatus(status) == Lower(status)

\* SELECT id FROM attendance WHERE user_id = ? AND date = ? ... fetchone()
SelectExisting(user_id, date) ==
    IF \E a \in attendance : a.user_id = user_id /\ a.date = date
    THEN Some((CHOOSE a \in attendance :
                 a.user_id = user_id /\ a.date = date).id)
    ELSE None

\* an UPDATE that keeps a column's value where the new value is NULL
UpdatedRow_KeepWhereNull(a, f) ==
    [a EXCEPT !.status = Lower(f.status),
              !.check_in = IF f.check_in = None THEN @ ELSE f.check_in,
              !.check_out = IF f.check_out = None THEN @ ELSE f.check_out,
              !.notes = IF f.notes = None THEN @ ELSE f.notes]

\* UPDATE attendance SET status = ?, check_in = ?, check_out = ?, notes = ?
\* applied to one row
UpdatedRow(a, f) ==
    [a EXCEPT !.status = StoredStatus(f.status), !.check_in = f.check_in,
              !.check_out = f.check_out, !.notes = f.notes]

\* ... WHERE id = ?
UpdateById(id, f) ==
    {IF a.id = id THEN UpdatedRow(a, f) ELSE a : a \in attendance}

\* INSERT INTO attendance (user_id, date, status, check_in, check_out, notes)
InsertedRow(f) ==
    [id |-> NextAttendanceId, user_id |-> f.user_id, date |-> f.date,
     status |-> StoredStatus(f.status), check_in |-> f.check_in,
     check_out |-> f.check_out, notes |-> f.notes]

\* how many calls of mark_attendance are between their statements
InProgress == Cardinality({t \in Threads : pc[t] # "idle"})

\* lines 97-105: the status test, then the user test, of a call with one of
\* the status, check_in, check_out and notes of inputs
MarkAttendanceOf(t, inputs) ==
    /\ pc[t] = "idle"
    /\ GetDbConnection(t)
    /\ UNCHANGED session
    /\ \E user_id \in UserIds, date \in Dates, m \in inputs :
        LET args == [user_id |-> user_id, status |-> m.status, date |-> date,
                     check_in |-> m.check_in, check_out |-> m.check_out,
                     notes |-> m.notes] IN
        IF ~ValidStatus(args.status)
        THEN /\ Return("mark_attendance", args, ValueError("status"))
             /\ UNCHANGED <<pc, frame>>
        ELSE IF ~UserExists(user_id)
        THEN /\ Return("mark_attendance", args, ValueError("user"))
             /\ UNCHANGED <<pc, frame>>
        ELSE \* the bound: the calls in progress can all INSERT, or this
             \* one finds a row to UPDATE
             /\ \/ att_seq + InProgress < MaxRecords
                \/ SelectExisting(user_id, date) # None
             /\ pc' = [pc EXCEPT ![t] = "select_existing"]
             /\ frame' = [frame EXCEPT ![t] = args]
             /\ UNCHANGED last
    /\ UNCHANGED <<users, attendance, user_seq, att_seq>>

MarkAttendance(t) == MarkAttendanceOf(t, MarkInputs)

\* lines 109-114
MarkSelectExisting(t) ==
    /\ pc[t] = "select_existing"
    /\ UNCHANGED <<thread_local, conn_seq, session>>
    /\ pc' = [pc EXCEPT ![t] = "write"]
    /\ frame' = [frame EXCEPT ![t] =
           [existing |-> SelectExisting(frame[t].user_id, frame[t].date)]
           @@ frame[t]]
    /\ UNCHANGED <<users, attendance, user_seq, att_seq, last>>

\* lines 116-134: the UPDATE or the INSERT, then commit, or rollback and raise
MarkWrite(t) ==
    /\ pc[t] = "write"
    /\ UNCHANGED <<thread_local, conn_seq, session>>
    /\ LET f == frame[t] IN
        IF f.existing # None
        THEN IF \E a \in UpdateById(f.existing[1], f) : ~StatusCheckOk(a.status)
             THEN /\ attendance' = Rollback(attendance,
                                            UpdateById(f.existing[1], f))
                  /\ UNCHANGED att_seq
                  /\ Return("mark_attendance", f, IntegrityError("check"))
             ELSE /\ attendance' = UpdateById(f.existing[1], f)
                  /\ UNCHANGED att_seq
                  /\ Return("mark_attendance", f, Ok(TRUE))
        ELSE IF ~StatusCheckOk(InsertedRow(f).status)
        THEN /\ attendance' = Rollback(attendance,
                                       attendance \cup {InsertedRow(f)})
             /\ UNCHANGED att_seq
             /\ Return("mark_attendance", f, IntegrityError("check"))
        ELSE IF ~UniqueOk(f.user_id, f.date)
        THEN /\ attendance' = Rollback(attendance,
                                       attendance \cup {InsertedRow(f)})
             /\ UNCHANGED att_seq
             /\ Return("mark_attendance", f, IntegrityError("unique"))
        ELSE IF ~ForeignKeyOk(f.user_id)
        THEN /\ attendance' = Rollback(attendance,
                                       attendance \cup {InsertedRow(f)})
             /\ UNCHANGED att_seq
             /\ Return("mark_attendance", f,
                       IntegrityError("foreign_key"))
        ELSE /\ att_seq < MaxRecords
             /\ attendance' = attendance \cup {InsertedRow(f)}
             /\ att_seq' = NextAttendanceId
             /\ Return("mark_attendance", f, Ok(TRUE))
    /\ pc' = [pc EXCEPT ![t] = "idle"]
    /\ frame' = [frame EXCEPT ![t] = <<>>]
    /\ UNCHANGED <<users, user_seq>>

----------------------------------------------------------------------------
(* delete_user, delete_attendance *)

\* a rowcount that is 1 whatever was deleted
Rowcount_One(deleted) == 1

\* cursor.rowcount after a DELETE: the number of rows the statement deleted
\* (the rows a cascade deletes are not counted)
Rowcount(deleted) == Cardinality(deleted)

\* a DELETE that leaves the date out of its WHERE clause
DeletedAttendance_AnyDate(user_id, date) ==
    {a \in attendance : a.user_id = user_id}

\* the rows of DELETE FROM attendance WHERE user_id = ? AND date = ?
DeletedAttendance(user_id, date) ==
    {a \in attendance : a.user_id = user_id /\ a.date = date}

DeleteUser(t) ==
    /\ pc[t] = "idle"
    /\ GetDbConnection(t)
    /\ UNCHANGED session
    /\ \E user_id \in UserIds :
        LET deleted == {u \in users : u.id = user_id} IN
        /\ users' = users \ deleted
        /\ attendance' = IF deleted = {} THEN attendance
                         ELSE CascadeDelete(user_id)
        \* return cursor.rowcount > 0
        /\ Return("delete_user", [user_id |-> user_id],
                  Ok(Rowcount(deleted) > 0))
    /\ UNCHANGED <<user_seq, att_seq, pc, frame>>

DeleteAttendance(t) ==
    /\ pc[t] = "idle"
    /\ GetDbConnection(t)
    /\ UNCHANGED session
    /\ \E user_id \in UserIds, date \in Dates :
        LET deleted == DeletedAttendance(user_id, date) IN
        /\ attendance' = attendance \ deleted
        /\ Return("delete_attendance", [user_id |-> user_id, date |-> date],
                  Ok(Rowcount(deleted) > 0))
    /\ UNCHANGED <<users, user_seq, att_seq, pc, frame>>

----------------------------------------------------------------------------
(* The queries: get_users, view_attendance *)

\* the place of a character in the order SQLite's BINARY collation compares by
CodeOrder == <<" ">> \o UpperLetters \o LowerLetters
Code(c) == CHOOSE i \in DOMAIN CodeOrder : CodeOrder[i] = c

\* text a sorts before or with text b
RECURSIVE TextLeq(_, _)
TextLeq(a, b) ==
    IF a = <<>> THEN TRUE
    ELSE IF b = <<>> THEN FALSE
    ELSE IF Head(a) # Head(b) THEN Code(Head(a)) < Code(Head(b))
    ELSE TextLeq(Tail(a), Tail(b))

\* fetchall(): the rows S of a result, in the orders they may come in
Arrangements(S) ==
    {q \in [1..Cardinality(S) -> S] :
        \A i, j \in DOMAIN q : i # j => q[i] # q[j]}

\* a SELECT that leaves the role out of its WHERE clause
GetUsersRows_AnyRole(role) == users

\* SELECT id, name, role, created_at FROM users WHERE 1=1 [AND role = ?]
GetUsersRows(role) ==
    {u \in users : (role # None /\ role[1] # <<>>) => u.role = Lower(role[1])}

\* ... ORDER BY name: rows of equal names come in any order
ByName(u, v) == TextLeq(u.name, v.name)

\* the results get_users(role) may return
GetUsersResults(role) ==
    {q \in Arrangements(GetUsersRows(role)) :
        \A i \in 1..(Len(q) - 1) : ByName(q[i], q[i + 1])}

GetUsers(t) ==
    /\ pc[t] = "idle"
    /\ GetDbConnection(t)
    /\ UNCHANGED session
    /\ \E role \in {None, Some(<<"A","d","m","i","n">>)} :
       \E rows \in GetUsersResults(role) :
          Return("get_users", [role |-> role], Ok(rows))
    /\ UNCHANGED <<users, attendance, user_seq, att_seq, pc, frame>>

\* hours that are NULL unless both times are NULL
HoursWorked_UnlessBothNull(a) ==
    IF a.check_out # None \/ a.check_in # None
    THEN Some(<<(IF a.check_out # None
                 THEN a.check_out[1][1] * 3600 + a.check_out[1][2] * 60
                      + a.check_out[1][3] ELSE 0)
                - (IF a.check_in # None
                   THEN a.check_in[1][1] * 3600 + a.check_in[1][2] * 60
                        + a.check_in[1][3] ELSE 0), 3600>>)
    ELSE None

\* strftime('%s', t) of a time of day: seconds since 1970, on 2000-01-01
StrftimeSeconds(t) == 946684800 + t[1] * 3600 + t[2] * 60 + t[3]

\* CASE WHEN a.check_out IS NOT NULL AND a.check_in IS NOT NULL THEN
\* (strftime('%s', a.check_out) - strftime('%s', a.check_in))/3600.0
\* ELSE NULL END: the quotient is written <<dividend, divisor>>
HoursWorked(a) ==
    IF a.check_out # None /\ a.check_in # None
    THEN Some(<<StrftimeSeconds(a.check_out[1])
                  - StrftimeSeconds(a.check_in[1]), 3600>>)
    ELSE None

\* one row of attendance a JOIN users u ON a.user_id = u.id
JoinedRow(a, u) ==
    [user_id |-> u.id, name |-> u.name, role |-> u.role, date |-> a.date,
     status |-> a.status, check_in |-> a.check_in, check_out |-> a.check_out,
     notes |-> a.notes, hours_worked |-> HoursWorked(a)]

\* a WHERE clause whose end_date is not inclusive
ViewAttendanceRows_EndExcluded(start_date, end_date, user_id, status) ==
    {JoinedRow(a, u) : <<a, u>> \in
        {p \in attendance \X users :
            /\ p[1].user_id = p[2].id
            /\ start_date # None => p[1].date >= start_date[1]
            /\ end_date # None => p[1].date < end_date[1]
            /\ (user_id # None /\ user_id[1] # 0) => p[1].user_id = user_id[1]
            /\ (status # None /\ status[1] # <<>>)
                  => p[1].status = Lower(status[1])}}

\* the WHERE clause built from the arguments that are truthy
ViewAttendanceRows(start_date, end_date, user_id, status) ==
    {JoinedRow(a, u) : <<a, u>> \in
        {p \in attendance \X users :
            /\ p[1].user_id = p[2].id
            /\ start_date # None => p[1].date >= start_date[1]
            /\ end_date # None => p[1].date <= end_date[1]
            /\ (user_id # None /\ user_id[1] # 0) => p[1].user_id = user_id[1]
            /\ (status # None /\ status[1] # <<>>)
                  => p[1].status = Lower(status[1])}}

\* an order by date ascending
ByDateDescName_DateAsc(r, s) ==
    r.date < s.date \/ (r.date = s.date /\ TextLeq(r.name, s.name))

\* ... ORDER BY a.date DESC, u.name ASC
ByDateDescName(r, s) ==
    r.date > s.date \/ (r.date = s.date /\ TextLeq(r.name, s.name))

\* the results view_attendance(start_date, end_date, user_id, status) may
\* return
ViewAttendanceResults(start_date, end_date, user_id, status) ==
    {q \in Arrangements(ViewAttendanceRows(start_date, end_date, user_id,
                                           status)) :
        \A i \in 1..(Len(q) - 1) : ByDateDescName(q[i], q[i + 1])}

\* the filters a caller passes to view_attendance
ViewInputs ==
    { [start_date |-> None, end_date |-> None, user_id |-> None,
       status |-> None],
      [start_date |-> Some(1), end_date |-> Some(1), user_id |-> None,
       status |-> Some(<<"L","A","T","E">>)] }
    \cup { [start_date |-> None, end_date |-> None, user_id |-> Some(u),
            status |-> None] : u \in UserIds }

\* view_attendance, called with one of the filters of inputs
ViewAttendanceOf(t, inputs) ==
    /\ pc[t] = "idle"
    /\ GetDbConnection(t)
    /\ UNCHANGED session
    /\ \E f \in inputs :
       \E rows \in ViewAttendanceResults(f.start_date, f.end_date,
                                         f.user_id, f.status) :
          Return("view_attendance", f, Ok(rows))
    /\ UNCHANGED <<users, attendance, user_seq, att_seq, pc, frame>>

ViewAttendance(t) == ViewAttendanceOf(t, ViewInputs)

----------------------------------------------------------------------------
(* The stored data the queries are run on: any users and attendance rows   *)
(* that calls of add_user, mark_attendance and the two deletes leave.      *)

StoredDates == 1..MaxDate

\* name and role of a stored user, by its id: the names of two users are
\* equal, or in the other order than their ids
StoredNamesAndRoles(id) ==
    IF id = 1 THEN { <<<<"b">>, student>> }
    ELSE { <<<<"a">>, admin>>, <<<<"b">>, student>> }

\* status, check_in, check_out and notes of a stored record: a check_out
\* after, before and without its check_in
StoredMarks ==
    { [status |-> present, check_in |-> Some(<<9, 0, 0>>),
       check_out |-> Some(<<17, 0, 0>>), notes |-> Some("n")],
      [status |-> absent, check_in |-> None, check_out |-> None,
       notes |-> None],
      [status |-> late, check_in |-> Some(<<17, 0, 0>>),
       check_out |-> Some(<<9, 30, 0>>), notes |-> None],
      [status |-> present, check_in |-> Some(<<9, 0, 0>>),
       check_out |-> None, notes |-> None] }

\* the users tables of users with ids among UserIds
StoredUsers ==
    UNION { { {[id |-> i, name |-> f[i][1], role |-> f[i][2]] : i \in I} :
              f \in {f \in [I -> UNION {StoredNamesAndRoles(i) : i \in I}] :
                       \A i \in I : f[i] \in StoredNamesAndRoles(i)} } :
            I \in SUBSET UserIds }

\* the attendance tables of at most MaxStored rows, one row at most for a
\* (user_id, date), every user_id the id of a row of us
StoredAttendance(us) ==
    UNION { { {[id |-> (k[1] - 1) * MaxDate + k[2], user_id |-> k[1],
                date |-> k[2], status |-> f[k].status,
                check_in |-> f[k].check_in, check_out |-> f[k].check_out,
                notes |-> f[k].notes] : k \in K} :
              f \in [K -> StoredMarks] } :
            K \in {K \in SUBSET ({u.id : u \in us} \X StoredDates) :
                     Cardinality(K) <= MaxStored} }

\* a database that holds stored data, between two calls
InitStored ==
    /\ users \in StoredUsers
    /\ attendance \in StoredAttendance(users)
    /\ user_seq = MaxUsers
    /\ att_seq = MaxUsers * MaxDate
    /\ pc = [t \in Threads |-> "idle"]
    /\ frame = [t \in Threads |-> <<>>]
    /\ last = NoCall
    /\ thread_local = [t \in Threads |-> None]
    /\ conn_seq = [t \in Threads |-> 0]
    /\ session = NoPage

\* the filters a caller passes to view_attendance on the stored data; the
\* last one passes a user_id and a status that are falsy
ViewFilters ==
    { [start_date |-> sd, end_date |-> ed, user_id |-> None,
       status |-> None] : sd \in {None, Some(2)}, ed \in {None, Some(2)} }
    \cup
    { [start_date |-> None, end_date |-> None, user_id |-> Some(1),
       status |-> None],
      [start_date |-> None, end_date |-> None, user_id |-> None,
       status |-> Some(<<"P","r","e","s","e","n","t">>)],
      [start_date |-> Some(2), end_date |-> Some(MaxDate),
       user_id |-> Some(1), status |-> Some(<<"l","a","t","e">>)],
      [start_date |-> None, end_date |-> None, user_id |-> Some(0),
       status |-> Some(<<>>)] }

ViewAttendanceFiltered(t) == ViewAttendanceOf(t, ViewFilters)

\* the (start_date, end_date) a caller passes to the reports
DateRanges == { <<1, MaxDate>>, <<2, 2>>, <<MaxDate, 1>> }

----------------------------------------------------------------------------
(* The reports: generate_report, get_attendance_stats, get_daily_stats.    *)
(* A percentage and an average of hours are written in hundredths.         *)

\* the quotient num / den (num >= 0, den > 0) rounded to the nearest
\* integer, a tie to the even one: Python's round
RoundHalfEven(num, den) ==
    LET q == num \div den
        r == num % den
    IN  IF 2 * r < den THEN q
        ELSE IF 2 * r > den THEN q + 1
        ELSE IF q % 2 = 0 THEN q ELSE q + 1

\* the quotient num / den (den > 0) rounded to the nearest integer, a tie
\* away from zero: SQLite's ROUND
RoundHalfAway(num, den) ==
    IF num >= 0 THEN (2 * num + den) \div (2 * den)
    ELSE 0 - ((2 * (0 - num) + den) \div (2 * den))

\* a percentage cut after its second decimal
Percent_Truncated(count, total) == (count * 10000) \div total

\* round((count / total) * 100, 2), for total > 0
Percent(count, total) == RoundHalfEven(count * 10000, total)

\* date BETWEEN ? AND ?
Between(date, start_date, end_date) ==
    date >= start_date /\ date <= end_date

\* the seconds from check_in to check_out, added up over the rows that
\* have both
RECURSIVE SumSeconds(_)
SumSeconds(rows) ==
    IF rows = {} THEN 0
    ELSE LET a == CHOOSE a \in rows : TRUE
         IN  HoursWorked(a)[1][1] + SumSeconds(rows \ {a})

\* ROUND(AVG(CASE WHEN ... THEN (...)/3600.0 ELSE NULL END), 2): NULL when
\* no row has both times
AvgHours(rows) ==
    LET timed == {a \in rows : HoursWorked(a) # None}
    IN  IF timed = {} THEN None
        ELSE Some(RoundHalfAway(SumSeconds(timed), 36 * Cardinality(timed)))

\* COUNT(CASE WHEN a.status = ? THEN 1 END)
CountStatus(rows, status) == Cardinality({a \in rows : a.status = status})

\* LEFT JOIN attendance a ON u.id = a.user_id AND a.date BETWEEN ? AND ?:
\* the attendance rows joined to the user u
ReportJoined(u, start_date, end_date) ==
    {a \in attendance :
        a.user_id = u.id /\ Between(a.date, start_date, end_date)}

\* the row of GROUP BY u.id for the user u
ReportRow(u, start_date, end_date) ==
    LET joined == ReportJoined(u, start_date, end_date) IN
    [id |-> u.id, name |-> u.name, role |-> u.role,
     total_days |-> Cardinality({a.date : a \in joined}),
     present_days |-> CountStatus(joined, present),
     absent_days |-> CountStatus(joined, absent),
     late_days |-> CountStatus(joined, late),
     avg_hours_per_day |-> AvgHours(joined)]

\* a report of the users that have a row in the range only (an inner join)
ReportUsers_WithRecords(start_date, end_date, role) ==
    {u \in users :
        /\ (role # None /\ role[1] # <<>>) => u.role = Lower(role[1])
        /\ ReportJoined(u, start_date, end_date) # {}}

\* FROM users u ... WHERE 1=1 [AND u.role = ?]
ReportUsers(start_date, end_date, role) ==
    {u \in users : (role # None /\ role[1] # <<>>) => u.role = Lower(role[1])}

\* df['attendance_percent'] = df.apply(...)
AttendancePercent(row) ==
    IF row.total_days > 0 THEN Percent(row.present_days, row.total_days)
    ELSE 0

\* the results generate_report(start_date, end_date, role) may return:
\* ORDER BY u.name, then the column attendance_percent
GenerateReportResults(start_date, end_date, role) ==
    { [i \in DOMAIN q |->
         LET row == ReportRow(q[i], start_date, end_date)
         IN  [attendance_percent |-> AttendancePercent(row)] @@ row] :
      q \in {q \in Arrangements(ReportUsers(start_date, end_date, role)) :
               \A i \in 1..(Len(q) - 1) : ByName(q[i], q[i + 1])} }

GenerateReport(t) ==
    /\ pc[t] = "idle"
    /\ GetDbConnection(t)
    /\ UNCHANGED session
    /\ \E d \in DateRanges,
          role \in {None, Some(<<"S","t","u","d","e","n","t">>)} :
       \E rows \in GenerateReportResults(d[1], d[2], role) :
          Return("generate_report",
                 [start_date |-> d[1], end_date |-> d[2], role |-> role],
                 Ok(rows))
    /\ UNCHANGED <<users, attendance, user_seq, att_seq, pc, frame>>

\* SUM(CASE WHEN status = ? THEN 1 ELSE 0 END): NULL over no rows
SumStatus(rows, status) ==
    IF rows = {} THEN None
    ELSE Some(Cardinality({a \in rows : a.status = status}))

\* the rows of FROM attendance WHERE date BETWEEN ? AND ?
InRange(start_date, end_date) ==
    {a \in attendance : Between(a.date, start_date, end_date)}

\* the dict get_attendance_stats(start_date, end_date) returns
AttendanceStats(start_date, end_date) ==
    LET rows == InRange(start_date, end_date)
        present_count == SumStatus(rows, present)
    IN  [total_users |-> Cardinality(users),
         total_records |-> Cardinality(rows),
         present_count |-> present_count,
         absent_count |-> SumStatus(rows, absent),
         late_count |-> SumStatus(rows, late),
         overall_present_rate |->
             IF Cardinality(rows) > 0
             THEN Percent(present_count[1], Cardinality(rows))
             ELSE 0]

GetAttendanceStats(t) ==
    /\ pc[t] = "idle"
    /\ GetDbConnection(t)
    /\ UNCHANGED session
    /\ \E d \in DateRanges :
          Return("get_attendance_stats",
                 [start_date |-> d[1], end_date |-> d[2]],
                 Ok(AttendanceStats(d[1], d[2])))
    /\ UNCHANGED <<users, attendance, user_seq, att_seq, pc, frame>>

\* the dates of all rows, in the range or not
DailyDates_AnyDate(start_date, end_date) == {a.date : a \in attendance}

\* GROUP BY date: the dates of the rows in the range
DailyDates(start_date, end_date) ==
    {a.date : a \in InRange(start_date, end_date)}

\* the row of the group of a date, with its present_rate
DailyRow(date) ==
    LET rows == {a \in attendance : a.date = date}
        present_count == SumStatus(rows, present)
    IN  [date |-> date,
         total_records |-> Cardinality(rows),
         present_count |-> present_count,
         absent_count |-> SumStatus(rows, absent),
         late_count |-> SumStatus(rows, late),
         present_rate |-> Percent(present_count[1], Cardinality(rows))]

\* the result of get_daily_stats(start_date, end_date): ORDER BY date
DailyStats(start_date, end_date) ==
    LET q == CHOOSE q \in Arrangements(DailyDates(start_date, end_date)) :
                 \A i \in 1..(Len(q) - 1) : q[i] < q[i + 1]
    IN  [i \in DOMAIN q |-> DailyRow(q[i])]

GetDailyStats(t) ==
    /\ pc[t] = "idle"
    /\ GetDbConnection(t)
    /\ UNCHANGED session
    /\ \E d \in DateRanges :
          Return("get_daily_stats",
                 [start_date |-> d[1], end_date |-> d[2]],
                 Ok(DailyStats(d[1], d[2])))
    /\ UNCHANGED <<users, attendance, user_seq, att_seq, pc, frame>>

----------------------------------------------------------------------------

Call(t) ==
    \/ AddUser(t)
    \/ MarkAttendance(t)
    \/ MarkSelectExisting(t)
    \/ MarkWrite(t)
    \/ DeleteUser(t)
    \/ DeleteAttendance(t)
    \/ GetUsers(t)
    \/ ViewAttendance(t)
    \/ CreateTables(t)

\* one caller: every call runs to its end before the next begins
Next == Call(1)

Spec == Init /\ [][Next]_vars

\* the callers of all threads, interleaved at the statements
NextThreads == \E t \in Threads : Call(t)

SpecThreads == Init /\ [][NextThreads]_vars

\* the check_in and check_out a caller passes: a check_out after, before and
\* without its check_in, and neither
TimedInputs ==
    { [status |-> present, check_in |-> Some(<<9, 0, 0>>),
       check_out |-> Some(<<17, 0, 0>>), notes |-> None],
      [status |-> late, check_in |-> Some(<<17, 0, 0>>),
       check_out |-> Some(<<9, 30, 0>>), notes |-> None],
      [status |-> present, check_in |-> Some(<<9, 0, 0>>),
       check_out |-> None, notes |-> None],
      [status |-> absent, check_in |-> None, check_out |-> None,
       notes |-> None] }

MarkAttendanceTimed(t) == MarkAttendanceOf(t, TimedInputs)

\* one caller that registers users, marks them with times and views the
\* records
NextTimes ==
    \/ AddUser(1)
    \/ MarkAttendanceTimed(1)
    \/ MarkSelectExisting(1)
    \/ MarkWrite(1)
    \/ ViewAttendance(1)

SpecTimes == Init /\ [][NextTimes]_vars

\* one caller's queries on stored data, and its deletes of records
NextQueries ==
    \/ ViewAttendanceFiltered(1)
    \/ GenerateReport(1)
    \/ GetAttendanceStats(1)
    \/ GetDailyStats(1)
    \/ GetUsers(1)
    \/ DeleteAttendance(1)

SpecQueries == InitStored /\ [][NextQueries]_vars

\* thread_local.conn.close()
Close(conn) == [conn EXCEPT !.closed = TRUE]

\* del thread_local.conn
Del_Off(conn) == Some(conn)
Del(conn) == None

\* the body of close_connection on thread t: thread_local after it
CloseThreadLocal(t) ==
    IF Conn(t) # None
    THEN [thread_local EXCEPT ![Local(t)] = Del(Close(Conn(t)[1]))]
    ELSE thread_local

\* close_connection: closes and forgets the connection of the thread that
\* calls it, and does nothing when the thread has none
CloseConnection(t) ==
    /\ pc[t] = "idle"
    /\ thread_local' = CloseThreadLocal(t)
    /\ Return("close_connection", [thread |-> t], Ok(None))
    /\ UNCHANGED <<users, attendance, user_seq, att_seq, pc, frame,
                   conn_seq, session>>

\* the threads register and list users and close their connections
NextConnections ==
    \E t \in Threads :
        \/ AddUser(t)
        \/ GetUsers(t)
        \/ CloseConnection(t)

SpecConnections == Init /\ [][NextConnections]_vars

\* get_users() of an AttendanceSystemDB constructed on db_path, as thread t
\* calls it: the rows come from the file of the connection that
\* _get_db_connection returns. users is table users of the file DbPath;
\* the file OtherDbPath holds no users.
InstanceGetUsers(t, db_path) ==
    /\ pc[t] = "idle"
    /\ GetDbConnectionOf(t, db_path)
    /\ LET conn == thread_local'[Local(t)][1] IN
       \E rows \in IF conn.db_path = DbPath THEN GetUsersResults(None)
                    ELSE {<<>>} :
          Return("get_users",
                 [role |-> None, db_path |-> db_path, file |-> conn.db_path],
                 Ok(rows))
    /\ UNCHANGED <<users, attendance, user_seq, att_seq, pc, frame, session>>

\* add_user of the instance on DbPath, called while the thread's connection,
\* if it has one, is on DbPath: users is the table it writes
AddUserOnDbPath(t) ==
    /\ Conn(t) # None => Conn(t)[1].db_path = DbPath
    /\ AddUser(t)

\* one thread with two instances, one on DbPath and one on OtherDbPath: it
\* registers users through the first, lists users through either, and
\* closes its connection
NextInstances ==
    \/ AddUserOnDbPath(1)
    \/ \E db_path \in DbPaths : InstanceGetUsers(1, db_path)
    \/ CloseConnection(1)

SpecInstances == Init /\ [][NextInstances]_vars

----------------------------------------------------------------------------
(* The settings page (pages/settings.py). Each action is one interaction of
   the user with a widget and the script runs it triggers, up to the page
   that is then on display. The script runs on thread 1. *)

\* the page as first displayed: reset_stage is set to 0, no checkbox is
\* shown, no flag file was written
SettingsPage ==
    [page |-> "settings", reset_stage |-> 0, confirm |-> FALSE,
     clicked |-> "none", flag_writes |-> 0, db_reset_needed |-> FALSE]

InitSettings ==
    /\ users = {}
    /\ attendance = {}
    /\ user_seq = 0
    /\ att_seq = 0
    /\ pc = [t \in Threads |-> "idle"]
    /\ frame = [t \in Threads |-> <<>>]
    /\ last = NoCall
    /\ thread_local = [t \in Threads |-> None]
    /\ conn_seq = [t \in Threads |-> 0]
    /\ session = SettingsPage

\* st.button("Confirm Reset", type="primary", disabled=not confirm)
ConfirmResetDisabled_Never(confirm) == FALSE
ConfirmResetDisabled(confirm) == ~confirm

\* stage 0, "Reset Database" clicked: reset_stage = 1 and st.rerun(); the
\* rerun shows the warning and the checkbox, not ticked
ClickResetDatabase ==
    /\ session.reset_stage = 0
    /\ session' = [session EXCEPT !.reset_stage = 1, !.confirm = FALSE,
                                  !.clicked = "Reset Database"]
    /\ UNCHANGED <<users, attendance, user_seq, att_seq, pc, frame, last,
                   thread_local, conn_seq>>

\* stage 1, the checkbox ticked or unticked: the run that follows presses
\* no button
ToggleConfirm ==
    /\ session.reset_stage = 1
    /\ session' = [session EXCEPT !.confirm = ~session.confirm,
                                  !.clicked = "checkbox"]
    /\ UNCHANGED <<users, attendance, user_seq, att_seq, pc, frame, last,
                   thread_local, conn_seq>>

\* stage 1, "Cancel" clicked: reset_stage = 0 and st.rerun(); the rerun
\* shows no checkbox, and its state is dropped
ClickCancel ==
    /\ session.reset_stage = 1
    /\ session' = [session EXCEPT !.reset_stage = 0, !.confirm = FALSE,
                                  !.clicked = "Cancel"]
    /\ UNCHANGED <<users, attendance, user_seq, att_seq, pc, frame, last,
                   thread_local, conn_seq>>

\* stage 1, "Confirm Reset" clicked, which the button allows when it is not
\* disabled: close_connection(), then the flag file is written, or open()
\* raises and the except branch reports it
ClickConfirmReset ==
    /\ session.reset_stage = 1
    /\ ~ConfirmResetDisabled(session.confirm)
    /\ pc[1] = "idle"
    /\ thread_local' = CloseThreadLocal(1)
    /\ Return("close_connection", [thread |-> 1], Ok(None))
    /\ \/ /\ session.flag_writes < MaxResets
          /\ session' = [session EXCEPT
                            !.flag_writes = session.flag_writes + 1,
                            !.db_reset_needed = TRUE,
                            !.reset_stage = 0,
                            !.confirm = FALSE,
                            !.clicked = "Confirm Reset"]
       \/ session' = [session EXCEPT !.clicked = "Confirm Reset"]
    /\ UNCHANGED <<users, attendance, user_seq, att_seq, pc, frame,
                   conn_seq>>

\* the user at the settings page, while the application registers and lists
\* users
NextSettings ==
    \/ AddUser(1)
    \/ GetUsers(1)
    \/ ClickResetDatabase
    \/ ToggleConfirm
    \/ ClickCancel
    \/ ClickConfirmReset

SpecSettings == InitSettings /\ [][NextSettings]_vars

----------------------------------------------------------------------------
(* The "All Users" tab of the User Management page
   (pages/user_management.py, and the same code in app.py). The user's
   interactions with the widgets are actions of their own: each leaves an
   event, and the script run that the event triggers is the action
   ScriptRun. A button is true in the run its click triggered and in no
   other; a widget that a run does not render loses its state. *)

UserManagementPage ==
    [page |-> "user_management", selected |-> 0, event |-> "none",
     shown |-> FALSE, confirm |-> FALSE]

InitUserManagement ==
    /\ users = {}
    /\ attendance = {}
    /\ user_seq = 0
    /\ att_seq = 0
    /\ pc = [t \in Threads |-> "idle"]
    /\ frame = [t \in Threads |-> <<>>]
    /\ last = NoCall
    /\ thread_local = [t \in Threads |-> None]
    /\ conn_seq = [t \in Threads |-> 0]
    /\ session = UserManagementPage

\* the user picks a user in "Select User to Delete"
SelectUser ==
    /\ session.event = "none"
    /\ \E u \in users :
          session' = [session EXCEPT !.selected = u.id,
                                    !.event = "selectbox"]
    /\ UNCHANGED <<users, attendance, user_seq, att_seq, pc, frame, last,
                   thread_local, conn_seq>>

\* the user clicks "Delete User", which is on display when users are listed
ClickDeleteUser ==
    /\ session.event = "none"
    /\ \E u \in users : u.id = session.selected
    /\ session' = [session EXCEPT !.event = "Delete User"]
    /\ UNCHANGED <<users, attendance, user_seq, att_seq, pc, frame, last,
                   thread_local, conn_seq>>

\* the user ticks the confirmation checkbox, which is on display after a run
\* that rendered it
TickConfirm ==
    /\ session.event = "none"
    /\ session.shown
    /\ ~session.confirm
    /\ session' = [session EXCEPT !.confirm = TRUE, !.event = "checkbox"]
    /\ UNCHANGED <<users, attendance, user_seq, att_seq, pc, frame, last,
                   thread_local, conn_seq>>

\* st.button("Delete User", ...) in the run that event triggered
ButtonDeleteUser(event) == event = "Delete User"

\* one run of the script: get_users() for the list; with users listed and
\* the button true, the checkbox is rendered and, when it is ticked,
\* delete_user(selected) is called and a rerun asked for on success
ScriptRun ==
    /\ session.event # "none"
    /\ pc[1] = "idle"
    /\ GetDbConnection(1)
    /\ LET button == users # {} /\ ButtonDeleteUser(session.event)
           confirm == button /\ session.shown /\ session.confirm
           deleted == {u \in users : u.id = session.selected}
       IN
       /\ IF confirm
          THEN /\ users' = users \ deleted
               /\ attendance' = IF deleted = {} THEN attendance
                                ELSE CascadeDelete(session.selected)
               /\ Return("delete_user", [user_id |-> session.selected],
                         Ok(Rowcount(deleted) > 0))
          ELSE /\ \E rows \in GetUsersResults(None) :
                    Return("get_users", [role |-> None], Ok(rows))
               /\ UNCHANGED <<users, attendance>>
       /\ session' = [session EXCEPT
                         !.shown = button,
                         !.confirm = confirm,
                         !.event = IF confirm /\ deleted # {}
                                   THEN "rerun" ELSE "none"]
    /\ UNCHANGED <<user_seq, att_seq, pc, frame>>

\* the user at the page, and users registered meanwhile
NextUserManagement ==
    \/ AddUser(1)
    \/ SelectUser
    \/ ClickDeleteUser
    \/ TickConfirm
    \/ ScriptRun

\* every interaction is followed by its script run
SpecUserManagement ==
    InitUserManagement /\ [][NextUserManagement]_vars /\ WF_vars(ScriptRun)

----------------------------------------------------------------------------
(* Steps of the calls, as the properties below refer to them *)

\* a call that is one step (every call but a mark_attendance that passes its
\* two tests) completes: no thread moves to another statement
Completes(op) == pc' = pc /\ last'.op = op

\* the rows of a table of attendance rows with, and without, the key
KeyRows(rows, user_id, date) ==
    {a \in rows : a.user_id = user_id /\ a.date = date}
OtherRows(rows, user_id, date) ==
    {a \in rows : ~(a.user_id = user_id /\ a.date = date)}

\* the enumerated values, as the schema and the specification list them
RoleValues == {<<"s","t","u","d","e","n","t">>,
               <<"e","m","p","l","o","y","e","e">>, <<"a","d","m","i","n">>}
StatusValues == {<<"p","r","e","s","e","n","t">>, <<"a","b","s","e","n","t">>,
                 <<"l","a","t","e">>}

----------------------------------------------------------------------------
(* C1 *)

\* C1: in every state reachable by the calls of all threads, interleaved at
\* the statements, attendance holds at most one row for each (user_id, date).
C1_OneRecordPerUserAndDate ==
    \A a, b \in attendance :
        (a.user_id = b.user_id /\ a.date = b.date) => a = b

\* two calls both found no row for the key; the second INSERT was refused
C1_Witness ==
    /\ last.op = "mark_attendance"
    /\ last.result = IntegrityError("unique")
    /\ KeyRows(attendance, last.args.user_id, last.args.date) # {}

----------------------------------------------------------------------------
(* C4 *)

\* C4: in every state reachable by the calls of all threads, every attendance
\* row's user_id is the id of a row of users, also when a delete_user runs
\* between a mark_attendance's user test and its INSERT.
C4_EveryRecordHasItsUser ==
    \A a \in attendance : \E u \in users : u.id = a.user_id

\* the user passed the test of mark_attendance and was deleted before the
\* INSERT, which the foreign key refused
C4_Witness ==
    /\ last.op = "mark_attendance"
    /\ last.result = IntegrityError("foreign_key")
    /\ ~ \E u \in users : u.id = last.args.user_id

----------------------------------------------------------------------------
(* C9 *)

\* C9: in every reachable state every stored role is one of the lowercase
\* values student, employee, admin and every stored status one of present,
\* absent, late, whatever letter case the caller passed: a role or a status
\* that is one of the values but for its letter case is not refused, and the
\* row written for it holds the lowercase value.
C9_StoredEnumsLowercase ==
    /\ \A u \in users : u.role \in RoleValues
    /\ \A a \in attendance : a.status \in StatusValues
    /\ (last.op = "add_user" /\ last.args.name # <<>>
            /\ Lower(last.args.role) \in RoleValues)
         => /\ last.result.kind = "ok"
            /\ \E u \in users : /\ u.id = last.result.value
                                /\ u.role = Lower(last.args.role)
    /\ (last.op = "mark_attendance" /\ Lower(last.args.status) \in StatusValues)
         => /\ last.result # IntegrityError("check")
            /\ last.result.kind = "ok" =>
                 \A a \in attendance :
                    a.id = (IF last.args.existing = None THEN att_seq
                            ELSE last.args.existing[1])
                    => a.status = Lower(last.args.status)

\* rows were written for a role and a status passed in capitals
C9_Witness ==
    /\ \E u \in users : u.role = <<"a","d","m","i","n">>
    /\ last.op = "mark_attendance"
    /\ last.args.status = <<"L","A","T","E">>
    /\ last.result = Ok(TRUE)
    /\ \E a \in attendance :
          /\ a.user_id = last.args.user_id
          /\ a.status = <<"l","a","t","e">>

----------------------------------------------------------------------------
(* C2 *)

\* C2: when mark_attendance is called for a (user_id, date) that a call
\* before it has marked, the call leaves exactly one row for that key, whose
\* status (in lowercase, as it is stored), check_in, check_out and notes are
\* those of this second call, a NULL of the call replacing a value of the
\* first, and it leaves the rows of every other key as they were.
C2_SecondMarkOverwrites ==
    [][\A t \in Threads :
        (/\ pc[t] = "write" /\ pc'[t] = "idle"
         /\ KeyRows(attendance, frame[t].user_id, frame[t].date) # {})
        => /\ \E a \in attendance' :
                /\ KeyRows(attendance', frame[t].user_id, frame[t].date) = {a}
                /\ a.status = Lower(frame[t].status)
                /\ a.check_in = frame[t].check_in
                /\ a.check_out = frame[t].check_out
                /\ a.notes = frame[t].notes
           /\ OtherRows(attendance', frame[t].user_id, frame[t].date)
                = OtherRows(attendance, frame[t].user_id, frame[t].date)
      ]_vars

\* a second call, passing NULLs, has updated the row of its key while a row
\* of another key is stored
C2_Witness ==
    /\ last.op = "mark_attendance"
    /\ last.result = Ok(TRUE)
    /\ last.args.existing # None
    /\ last.args.notes = None
    /\ \E a \in attendance :
          /\ a.id = last.args.existing[1]
          /\ a.notes = None
          /\ a.check_in = None
    /\ OtherRows(attendance, last.args.user_id, last.args.date) # {}

----------------------------------------------------------------------------
(* C3 *)

\* C3: delete_user(user_id) on an existing user removes that user and every
\* attendance row with that user_id, so that view_attendance filtered by that
\* user_id then returns no row; the other users and the attendance rows of
\* the other users are unchanged.
C3_DeleteUserCascades ==
    [][\A id \in UserIds :
        (/\ Completes("delete_user")
         /\ last'.args.user_id = id
         /\ \E u \in users : u.id = id)
        => /\ users' = {u \in users : u.id # id}
           /\ attendance' = {a \in attendance : a.user_id # id}
           /\ ViewAttendanceResults(None, None, Some(id), None)' = {<<>>}
      ]_vars

\* a user was deleted, after two rows had been inserted into attendance;
\* another user and a row of that user remain
C3_Witness ==
    /\ last.op = "delete_user"
    /\ last.result = Ok(TRUE)
    /\ att_seq = 2
    /\ Cardinality(attendance) = 1
    /\ users # {}
    /\ ViewAttendanceResults(None, None, Some(last.args.user_id), None)
         = {<<>>}

----------------------------------------------------------------------------
(* C5 *)

\* C5: mark_attendance with a user_id that is the id of no user fails with an
\* error, at its tests, and neither inserts nor changes an attendance row.
C5_MarkUnknownUserFails ==
    [][\A t \in Threads :
        /\ (/\ Completes("mark_attendance")
            /\ ~ \E u \in users : u.id = last'.args.user_id)
           => /\ last'.result.kind = "ValueError"
              /\ attendance' = attendance
        /\ (pc[t] = "idle" /\ pc'[t] # "idle")
           => \E u \in users : u.id = frame'[t].user_id
      ]_vars

\* a call with a valid status for a user that does not exist was refused,
\* with rows stored
C5_Witness ==
    /\ last.op = "mark_attendance"
    /\ last.result = ValueError("user")
    /\ ~ \E u \in users : u.id = last.args.user_id
    /\ attendance # {}

----------------------------------------------------------------------------
(* C6 *)

\* C6: add_user with a role that is not, whatever its letter case, one of
\* student, employee, admin fails with a validation error and leaves the
\* users table unchanged.
C6_AddUserBadRoleFails ==
    [][(/\ Completes("add_user")
        /\ Lower(last'.args.role) \notin RoleValues)
       => /\ last'.result.kind = "ValueError"
          /\ users' = users
      ]_vars

\* add_user(name, "teacher") was refused, with a user stored
C6_Witness ==
    /\ last.op = "add_user"
    /\ last.args.name # <<>>
    /\ last.args.role = <<"t","e","a","c","h","e","r">>
    /\ last.result = ValueError("role")
    /\ users # {}

----------------------------------------------------------------------------
(* C7 *)

\* C7, as stated: after add_user(name, role), with a name that is not empty
\* once trimmed, has returned an id, get_users() holds exactly one user with
\* that name and role (as they are stored: trimmed, in lowercase), and that
\* user carries the id returned.
C7_OneUserWithNameAndRole ==
    (/\ last.op = "add_user" /\ last.result.kind = "ok"
     /\ Strip(last.args.name) # <<>>)
    => \A q \in GetUsersResults(None) :
          /\ Cardinality({i \in DOMAIN q :
                            /\ q[i].name = Strip(last.args.name)
                            /\ q[i].role = Lower(last.args.role)}) = 1
          /\ \A i \in DOMAIN q :
                (/\ q[i].name = Strip(last.args.name)
                 /\ q[i].role = Lower(last.args.role))
                => q[i].id = last.result.value

\* C7, amended: after add_user(name, role) has returned an id, get_users()
\* holds exactly one user carrying that id; its name is the trimmed name and
\* its role the role in lowercase; every other user of the result carries
\* another id, and may have the same name and role.
C7_AddedUserListedOnce ==
    (last.op = "add_user" /\ last.result.kind = "ok")
    => \A q \in GetUsersResults(None) :
          \E i \in DOMAIN q :
             /\ q[i].id = last.result.value
             /\ q[i].name = Strip(last.args.name)
             /\ q[i].role = Lower(last.args.role)
             /\ \A j \in DOMAIN q : j # i => q[j].id # q[i].id

\* add_user has returned the id of a second user of the same name and role
C7_Witness ==
    /\ last.op = "add_user"
    /\ last.result.kind = "ok"
    /\ \E u, v \in users :
          /\ u.id = last.result.value
          /\ u.name # <<>>
          /\ v.id # u.id
          /\ v.name = u.name
          /\ v.role = u.role

----------------------------------------------------------------------------
(* C8 *)

\* C8: in every reachable state the stored name of every user is trimmed and
\* not empty: add_user refuses with a validation error every name that is
\* empty once trimmed, a name of spaces included, and inserts no row for it.
C8_NamesTrimmedNonEmpty ==
    /\ \A u \in users : u.name # <<>> /\ Strip(u.name) = u.name
    /\ (last.op = "add_user" /\ Strip(last.args.name) = <<>>)
          => last.result.kind = "ValueError"

----------------------------------------------------------------------------
(* C10 *)

\* C10: mark_attendance with a status that is not, whatever its letter case,
\* one of present, absent, late fails with the validation error of the status
\* at its first test, before any statement that writes, whether the user
\* exists or not, and leaves the attendance table as it was.
C10_MarkBadStatusFails ==
    [][\A t \in Threads :
        /\ (/\ Completes("mark_attendance")
            /\ Lower(last'.args.status) \notin StatusValues)
           => /\ last'.result = ValueError("status")
              /\ attendance' = attendance
        /\ (pc[t] = "idle" /\ pc'[t] # "idle")
           => Lower(frame'[t].status) \in StatusValues
      ]_vars

\* a call with status "sick" for an existing user whose date is marked was
\* refused
C10_Witness ==
    /\ last.op = "mark_attendance"
    /\ last.args.status = <<"s","i","c","k">>
    /\ last.result = ValueError("status")
    /\ KeyRows(attendance, last.args.user_id, last.args.date) # {}

----------------------------------------------------------------------------
(* C11 *)

\* C11: delete_user(user_id) returns true exactly when a user with that id
\* was stored before the call; when it returns false, the users table and the
\* attendance table are as they were.
C11_DeleteUserReturnsWhetherExisted ==
    [][Completes("delete_user")
       => /\ last'.result.kind = "ok"
          /\ last'.result.value = TRUE
                <=> \E u \in users : u.id = last'.args.user_id
          /\ last'.result.value = FALSE
                => users' = users /\ attendance' = attendance
      ]_vars

\* delete_user has returned false for an id that is no user's, with a user
\* and an attendance row stored
C11_Witness ==
    /\ last.op = "delete_user"
    /\ last.result = Ok(FALSE)
    /\ users # {}
    /\ attendance # {}

----------------------------------------------------------------------------
(* C20 *)

\* C20: a call of create_tables, at any point between the other calls and
\* however often it is repeated, leaves the users table and the attendance
\* table (and the ids the next rows get) as they were.
C20_CreateTablesIdempotent ==
    [][Completes("create_tables")
       => /\ users' = users
          /\ attendance' = attendance
          /\ user_seq' = user_seq
          /\ att_seq' = att_seq
      ]_vars

\* create_tables has returned with users and attendance rows stored
C20_Witness ==
    /\ last.op = "create_tables"
    /\ users # {}
    /\ attendance # {}

----------------------------------------------------------------------------
(* C12 *)

\* C12: delete_attendance(user_id, date) removes the record of that
\* (user_id, date) and no other, returns true exactly when there was such a
\* record, and leaves the users, the user of the record included, and every
\* other record, the same user's records of other dates included, unchanged.
C12_DeleteAttendanceByKey ==
    [][Completes("delete_attendance")
       => /\ attendance' = OtherRows(attendance, last'.args.user_id,
                                     last'.args.date)
          /\ last'.result.kind = "ok"
          /\ last'.result.value = TRUE
                <=> KeyRows(attendance, last'.args.user_id,
                            last'.args.date) # {}
          /\ users' = users
      ]_vars

\* a record was deleted; its user is stored, with a record of another date,
\* and so is a record of another user
C12_Witness ==
    /\ last.op = "delete_attendance"
    /\ last.result = Ok(TRUE)
    /\ \E u \in users : u.id = last.args.user_id
    /\ \E a, b \in attendance :
          /\ a.user_id = last.args.user_id /\ a.date # last.args.date
          /\ b.user_id # last.args.user_id

----------------------------------------------------------------------------
(* C13 *)

----------------------------------------------------------------------------
(* C14 *)

\* C14: the rows view_attendance returns are in the order of their dates,
\* the latest first, and rows of one date in the ascending order of their
\* users' names.
C14_ViewAttendanceOrder ==
    last.op = "view_attendance" =>
    LET q == last.result.value IN
    \A i, j \in DOMAIN q :
        i < j => \/ q[i].date > q[j].date
                 \/ /\ q[i].date = q[j].date
                    /\ TextLeq(q[i].name, q[j].name)

\* three rows were returned: two of one date, the row of the user whose id
\* is greater first as its name is less, after a row of a later date
C14_Witness ==
    /\ last.op = "view_attendance"
    /\ Len(last.result.value) = 3
    /\ last.result.value[1].date > last.result.value[2].date
    /\ last.result.value[2].date = last.result.value[3].date
    /\ last.result.value[2].name # last.result.value[3].name
    /\ last.result.value[2].user_id > last.result.value[3].user_id

----------------------------------------------------------------------------
(* C15 *)

\* the seconds of a time of day "HH:MM:SS"
SecondsOfDay(time) == time[1] * 3600 + time[2] * 60 + time[3]

\* C15: in every row view_attendance returns, hours_worked is null exactly
\* when check_in or check_out is null, and is otherwise the time from
\* check_in to check_out in hours (written <<seconds, 3600>>: 09:00:00 to
\* 17:00:00 gives 28800 / 3600 = 8); mark_attendance does not refuse a
\* check_out earlier than its check_in, it stores both, and the hours of that
\* row are negative.
C15_HoursWorked ==
    /\ last.op = "view_attendance" =>
          \A i \in DOMAIN last.result.value :
            LET row == last.result.value[i] IN
            /\ row.hours_worked = None
                  <=> (row.check_in = None \/ row.check_out = None)
            /\ row.hours_worked # None =>
                  /\ row.hours_worked[1][2] = 3600
                  /\ row.hours_worked[1][1]
                       = SecondsOfDay(row.check_out[1])
                         - SecondsOfDay(row.check_in[1])
                  /\ (row.check_in[1] = <<9, 0, 0>>
                         /\ row.check_out[1] = <<17, 0, 0>>)
                       => row.hours_worked[1][1] = 8 * row.hours_worked[1][2]
                  /\ SecondsOfDay(row.check_out[1])
                         < SecondsOfDay(row.check_in[1])
                       => row.hours_worked[1][1] < 0
    /\ (/\ last.op = "mark_attendance"
         /\ last.args.check_in # None /\ last.args.check_out # None
         /\ \E u \in users : u.id = last.args.user_id)
        => /\ last.result = Ok(TRUE)
           /\ \E a \in attendance :
                 /\ a.user_id = last.args.user_id /\ a.date = last.args.date
                 /\ a.check_in = last.args.check_in
                 /\ a.check_out = last.args.check_out

\* view_attendance has returned a row whose check_out is earlier than its
\* check_in, and a row that has a check_in and no check_out
C15_Witness ==
    /\ last.op = "view_attendance"
    /\ \E i, j \in DOMAIN last.result.value :
          /\ last.result.value[i].hours_worked = Some(<<0 - 27000, 3600>>)
          /\ last.result.value[j].check_in # None
          /\ last.result.value[j].check_out = None
          /\ last.result.value[j].hours_worked = None

----------------------------------------------------------------------------
(* C16 *)

\* the stored records of a user with a date from start_date to end_date
RecordsInRange(user_id, start_date, end_date) ==
    {a \in attendance :
        a.user_id = user_id /\ start_date <= a.date /\ a.date <= end_date}

\* C16: generate_report(start, end, role) returns exactly one row for every
\* user of the role (in lowercase, as it is stored), for every user when no
\* role is passed, in the ascending order of the names; the row of a user
\* counts the user's records dated from start to end and no other, so that
\* total_days, present_days, absent_days and late_days are all 0 for a user
\* with no record in the range.
C16_ReportRowPerUser ==
    last.op = "generate_report" =>
    LET f == last.args
        q == last.result.value
        listed == {u \in users :
                     (f.role # None /\ f.role[1] # <<>>)
                        => u.role = Lower(f.role[1])}
    IN  /\ Len(q) = Cardinality(listed)
        /\ \A u \in listed : \E i \in DOMAIN q :
              /\ q[i].id = u.id /\ q[i].name = u.name /\ q[i].role = u.role
        /\ \A i, j \in DOMAIN q : i < j => TextLeq(q[i].name, q[j].name)
        /\ \A i \in DOMAIN q :
              LET recs == RecordsInRange(q[i].id, f.start_date, f.end_date)
              IN  /\ q[i].total_days = Cardinality(recs)
                  /\ q[i].present_days
                       = Cardinality({a \in recs : a.status = present})
                  /\ q[i].absent_days
                       = Cardinality({a \in recs : a.status = absent})
                  /\ q[i].late_days
                       = Cardinality({a \in recs : a.status = late})
                  /\ recs = {} =>
                       /\ q[i].total_days = 0 /\ q[i].present_days = 0
                       /\ q[i].absent_days = 0 /\ q[i].late_days = 0

\* a report of two users: the first by its name has the greater id and no
\* record in the range, but one outside of it; the second has records in the
\* range
C16_Witness ==
    /\ last.op = "generate_report"
    /\ Len(last.result.value) = 2
    /\ last.result.value[1].id > last.result.value[2].id
    /\ last.result.value[1].total_days = 0
    /\ \E a \in attendance : a.user_id = last.result.value[1].id
    /\ last.result.value[2].total_days > 0

----------------------------------------------------------------------------
(* C17 *)

\* h hundredths is count / total * 100 rounded to two decimals
IsRoundedPercent(h, count, total) ==
    /\ 2 * (h * total - count * 10000) <= total
    /\ 2 * (count * 10000 - h * total) <= total

\* C17: in every row of generate_report, for any stored data,
\* attendance_percent is 0 when total_days is 0 and otherwise
\* present_days / total_days * 100 rounded to two decimals (written in
\* hundredths); the call returns, it does not divide by zero.
C17_AttendancePercent ==
    last.op = "generate_report" =>
    /\ last.result.kind = "ok"
    /\ \A i \in DOMAIN last.result.value :
          LET row == last.result.value[i] IN
          IF row.total_days = 0 THEN row.attendance_percent = 0
          ELSE IsRoundedPercent(row.attendance_percent, row.present_days,
                                row.total_days)

\* a report with a row of 2 present days of 3 (66.67) and a row of no day
C17_Witness ==
    /\ last.op = "generate_report"
    /\ \E i, j \in DOMAIN last.result.value :
          /\ last.result.value[i].total_days = 3
          /\ last.result.value[i].present_days = 2
          /\ last.result.value[i].attendance_percent = 6667
          /\ last.result.value[j].total_days = 0
          /\ last.result.value[j].attendance_percent = 0

----------------------------------------------------------------------------
(* C18 *)

\* C18: get_attendance_stats(start, end) returns total_users, the number of
\* all stored users; total_records, the number of records dated from start
\* to end; present_count, absent_count and late_count, the numbers of those
\* records of each status, which are numbers and add up to total_records,
\* also when no record is in the range; and overall_present_rate, 0 when
\* total_records is 0 and otherwise present_count / total_records * 100
\* rounded to two decimals.
C18_AttendanceStats ==
    last.op = "get_attendance_stats" =>
    LET f == last.args
        stats == last.result.value
        recs == {a \in attendance :
                   f.start_date <= a.date /\ a.date <= f.end_date}
        count(status) == Cardinality({a \in recs : a.status = status})
    IN  /\ stats.total_users = Cardinality(users)
        /\ stats.total_records = Cardinality(recs)
        /\ stats.present_count = Some(count(present))
        /\ stats.absent_count = Some(count(absent))
        /\ stats.late_count = Some(count(late))
        /\ count(present) + count(absent) + count(late) = stats.total_records
        /\ IF stats.total_records = 0 THEN stats.overall_present_rate = 0
           ELSE IsRoundedPercent(stats.overall_present_rate, count(present),
                                 stats.total_records)

----------------------------------------------------------------------------
(* C19 *)

\* C19: get_daily_stats(start, end) returns exactly one row for each date
\* from start to end that has a record and no row for another date; the
\* total_records of a row is the number of the records of its date, at
\* least 1, and the sum of its present_count, absent_count and late_count;
\* its present_rate is present_count / total_records * 100 rounded to two
\* decimals.
C19_DailyStats ==
    last.op = "get_daily_stats" =>
    LET f == last.args
        q == last.result.value
        dates == {d \in StoredDates :
                    /\ f.start_date <= d /\ d <= f.end_date
                    /\ \E a \in attendance : a.date = d}
    IN  /\ Len(q) = Cardinality(dates)
        /\ {q[i].date : i \in DOMAIN q} = dates
        /\ \A i \in DOMAIN q :
              /\ q[i].total_records
                   = Cardinality({a \in attendance : a.date = q[i].date})
              /\ q[i].total_records >= 1
              /\ q[i].present_count # None /\ q[i].absent_count # None
              /\ q[i].late_count # None
              /\ q[i].total_records
                   = q[i].present_count[1] + q[i].absent_count[1]
                     + q[i].late_count[1]
              /\ IsRoundedPercent(q[i].present_rate, q[i].present_count[1],
                                  q[i].total_records)

\* the rows of two dates, the date between them without a record and
\* without a row; one row is of two records, one of them present
C19_Witness ==
    /\ last.op = "get_daily_stats"
    /\ Len(last.result.value) = 2
    /\ last.result.value[2].date > last.result.value[1].date + 1
    /\ \E i \in DOMAIN last.result.value :
          /\ last.result.value[i].total_records = 2
          /\ last.result.value[i].present_rate = 5000

----------------------------------------------------------------------------
(* C27 *)

\* C27: over any sequence of add_user and delete_user (and other) calls,
\* add_user never returns an id that an earlier add_user returned, the ids
\* of users deleted since included: user_seq is the greatest id returned so
\* far, it never decreases, and every id add_user returns is greater than
\* it and than the id of every stored user.
C27_UserIdsNeverReused ==
    [][/\ user_seq' >= user_seq
       /\ (Completes("add_user") /\ last'.result.kind = "ok")
          => /\ last'.result.value > user_seq
             /\ \A u \in users : last'.result.value > u.id
             /\ user_seq' = last'.result.value
      ]_vars

\* add_user has returned an id after the user of the id before it was
\* deleted: no user is stored but the new one
C27_Witness ==
    /\ last.op = "add_user"
    /\ last.result = Ok(2)
    /\ \A u \in users : u.id = 2
    /\ users # {}

----------------------------------------------------------------------------
(* C28 *)

\* C28: in every state the calls of all threads reach, every row of every
\* generate_report has present_days + absent_days + late_days = total_days,
\* hence present_days <= total_days, and an attendance_percent from 0 to
\* 100 (in hundredths: 0 to 10000).
C28_ReportDaysAddUp ==
    \A d \in DateRanges,
       role \in {None, Some(<<"S","t","u","d","e","n","t">>)} :
       \A q \in GenerateReportResults(d[1], d[2], role) :
          \A i \in DOMAIN q :
             /\ q[i].present_days + q[i].absent_days + q[i].late_days
                  = q[i].total_days
             /\ q[i].present_days <= q[i].total_days
             /\ q[i].attendance_percent >= 0
             /\ q[i].attendance_percent <= 10000

\* a second INSERT for a (user_id, date) was refused, and the report of the
\* user counts the one record of the date: one late day of one day
C28_Witness ==
    /\ last.op = "mark_attendance"
    /\ last.result = IntegrityError("unique")
    /\ \E q \in GenerateReportResults(1, MaxDate, None) :
          \E i \in DOMAIN q :
             /\ q[i].id = last.args.user_id
             /\ q[i].total_days = 1
             /\ q[i].late_days = 1
             /\ q[i].attendance_percent = 0

----------------------------------------------------------------------------
(* C25 *)

\* C25: when threads call mark_attendance at once for one existing user and
\* one date with valid statuses, under every interleaving of their SELECTs
\* and of their INSERT or UPDATE every call returns true, and the one record
\* of the key that results carries the values of one of the calls.
C25_ConcurrentMarksBothSucceed ==
    (/\ last.op = "mark_attendance"
     /\ Lower(last.args.status) \in StatusValues
     /\ \E u \in users : u.id = last.args.user_id /\ u.name # <<>>)
    => /\ last.result = Ok(TRUE)
       /\ Cardinality(KeyRows(attendance, last.args.user_id,
                              last.args.date)) = 1

----------------------------------------------------------------------------
(* C23 *)

\* C23: when the INSERT, UPDATE or DELETE of add_user, mark_attendance,
\* delete_user or delete_attendance fails with a storage error (a violation
\* of the uniqueness, of the foreign key or of a CHECK), the call raises that
\* error and leaves no change: the users and the attendance records (and
\* the ids the next rows get) are those the failing statement found.
C23_FailedWriteLeavesNoChange ==
    [][(/\ last'.result.kind = "IntegrityError"
        /\ \/ pc' = pc
           \/ \E t \in Threads : pc[t] = "write" /\ pc'[t] = "idle")
       => /\ users' = users
          /\ attendance' = attendance
          /\ user_seq' = user_seq
          /\ att_seq' = att_seq
      ]_vars

\* an INSERT was refused for the uniqueness; the record of its key has
\* another status than the one the refused call passed
C23_Witness ==
    /\ last.op = "mark_attendance"
    /\ last.result = IntegrityError("unique")
    /\ \E a \in KeyRows(attendance, last.args.user_id, last.args.date) :
          a.status # Lower(last.args.status)

----------------------------------------------------------------------------
(* C24 *)

\* the last call was a query, and no stored row matches its arguments
NothingMatches ==
    LET f == last.args IN
    \/ /\ last.op = "get_users"
       /\ ~ \E u \in users :
              (f.role # None /\ f.role[1] # <<>>) => u.role = Lower(f.role[1])
    \/ /\ last.op = "view_attendance"
       /\ ~ \E a \in attendance :
              /\ f.start_date # None => a.date >= f.start_date[1]
              /\ f.end_date # None => a.date <= f.end_date[1]
              /\ (f.user_id # None /\ f.user_id[1] # 0)
                    => a.user_id = f.user_id[1]
              /\ (f.status # None /\ f.status[1] # <<>>)
                    => a.status = Lower(f.status[1])
    \/ /\ last.op = "generate_report"
       /\ ~ \E u \in users :
              (f.role # None /\ f.role[1] # <<>>) => u.role = Lower(f.role[1])
    \/ /\ last.op \in {"get_attendance_stats", "get_daily_stats"}
       /\ ~ \E a \in attendance :
              f.start_date <= a.date /\ a.date <= f.end_date

\* the result of the last call is empty: no row, or a summary of no record
EmptyResult ==
    /\ last.result.kind = "ok"
    /\ IF last.op = "get_attendance_stats"
       THEN /\ last.result.value.total_records = 0
            /\ last.result.value.overall_present_rate = 0
       ELSE last.result.value = <<>>

\* C24: get_users, view_attendance, generate_report, get_attendance_stats
\* and get_daily_stats return and do not raise, also on an empty database
\* and with arguments no row matches: they then return an empty result
\* (get_attendance_stats a summary of no record); and they leave the users
\* and the attendance records unchanged.
C24_QueriesReturnAndChangeNothing ==
    [][(pc' = pc /\ last'.op \in {"get_users", "view_attendance",
                                   "generate_report", "get_attendance_stats",
                                   "get_daily_stats"})
       => /\ last'.result.kind = "ok"
          /\ NothingMatches' => EmptyResult'
          /\ users' = users
          /\ attendance' = attendance
          /\ user_seq' = user_seq
          /\ att_seq' = att_seq
      ]_vars

\* get_users has returned no row for a role that no stored user has, with
\* users stored
C24_Witness ==
    /\ last.op = "get_users"
    /\ last.args.role # None
    /\ last.result = Ok(<<>>)
    /\ users # {}

----------------------------------------------------------------------------
(* The connections of the threads *)

\* the connection each thread sees as thread_local.conn
ConnOf == [t \in Threads |-> Conn(t)]

\* the connection a thread holds is one it opened itself
OwnConnections ==
    \A t \in Threads : ConnOf[t] # None => ConnOf[t][1].thread = t

\* no connection is held by two threads
NoSharing ==
    \A t \in Threads : \A u \in Threads \ {t} :
        ConnOf[t] # None => ConnOf[t] # ConnOf[u]

\* no thread holds a connection that was closed
NoClosedHeld ==
    \A t \in Threads : ConnOf[t] # None => ~ConnOf[t][1].closed

\* C21: a thread has no connection until its first operation, which opens
\* one for it; the thread keeps that connection for its later operations
\* (only its own close_connection takes it away); and at no time do two
\* threads hold the same connection or a thread a connection that another
\* thread opened.
C21_ConnectionPerThread ==
    [][ /\ OwnConnections'
        /\ NoSharing'
        /\ \A t \in Threads :
            \* opened lazily, by an operation
            /\ (ConnOf[t] = None /\ ConnOf'[t] # None)
                   => /\ last'.op \in {"add_user", "get_users"}
                      /\ conn_seq'[t] = conn_seq[t] + 1
            \* reused
            /\ (ConnOf[t] # None /\ ConnOf'[t] # ConnOf[t])
                   => /\ ConnOf'[t] = None
                      /\ last'.op = "close_connection"
                      /\ last'.args.thread = t
        \* an operation leaves some thread, the one that ran it, with a
        \* connection
        /\ last'.op \in {"add_user", "get_users"}
              => \E t \in Threads : ConnOf'[t] # None
      ]_vars

\* both threads hold a connection, each the only one it ever opened, after
\* three operations or more: a thread has used its connection again
C21_Witness ==
    /\ ConnOf[1] # None /\ ConnOf[2] # None
    /\ conn_seq = [t \in Threads |-> 1]
    /\ Cardinality(users) = 2
    /\ last.op = "get_users"

\* C22: close_connection succeeds whether or not the calling thread holds a
\* connection; it leaves the calling thread without one, the connections of
\* the other threads and the tables as they were; and the connection a
\* thread's next operation works on is a new, open one, never one that was
\* closed.
C22_CloseReleasesOwnConnection ==
    [][ /\ NoClosedHeld'
        /\ \A t \in Threads :
            /\ (Completes("close_connection") /\ last'.args.thread = t)
                   => /\ last'.result = Ok(None)
                      /\ ConnOf'[t] = None
                      /\ \A u \in Threads \ {t} : ConnOf'[u] = ConnOf[u]
                      /\ UNCHANGED <<users, attendance, user_seq, att_seq>>
            /\ (ConnOf[t] = None /\ ConnOf'[t] # None)
                   => /\ ~ConnOf'[t][1].closed
                      /\ ConnOf'[t][1].thread = t
                      /\ ConnOf'[t][1].n = conn_seq[t] + 1
                      /\ ConnOf'[t][1].n = conn_seq'[t]
      ]_vars

\* thread 1 closed its first connection and works on its second, while
\* thread 2 still holds its first
C22_Witness ==
    /\ ConnOf[1] # None /\ ConnOf[1][1].n = 2
    /\ ConnOf[2] # None /\ ConnOf[2][1].n = 1
    /\ last.op \in {"add_user", "get_users"}

\* a thread that never held a connection closed it, with success
C22_WitnessNoConnection ==
    /\ last.op = "close_connection"
    /\ last.result = Ok(None)
    /\ conn_seq[last.args.thread] = 0

\* C26: a get_users() called on an instance reads the file at that
\* instance's db_path, whichever instance the thread used before.
C26_OperationsUseOwnPath ==
    (last.op = "get_users" /\ "db_path" \in DOMAIN last.args)
        => last.args.file = last.args.db_path

----------------------------------------------------------------------------
(* The pages *)

\* C29: in the reset workflow reset_stage is 0 or 1; a step closes the
\* connection or writes the flag file only if it is "Confirm Reset" clicked
\* in stage 1 with the checkbox ticked; "Cancel" leads from stage 1 to stage
\* 0 and leaves the connection and the flag file as they were; a confirm
\* that wrote the flag file ends in stage 0; and no step of the workflow
\* changes the users or the attendance records.
C29_ResetWorkflow ==
    [][ /\ session'.reset_stage \in {0, 1}
        /\ ( \/ ConnOf[1] # None /\ ConnOf'[1] = None
             \/ session'.flag_writes # session.flag_writes
             \/ last' # last /\ last'.op = "close_connection" )
           => /\ session.reset_stage = 1
              /\ session.confirm
              /\ session'.clicked = "Confirm Reset"
        /\ (session' # session /\ session'.clicked = "Cancel")
           => /\ session.reset_stage = 1
              /\ session'.reset_stage = 0
              /\ thread_local' = thread_local
              /\ session'.flag_writes = session.flag_writes
        /\ session'.flag_writes # session.flag_writes
           => /\ session'.flag_writes = session.flag_writes + 1
              /\ session'.reset_stage = 0
              /\ ConnOf'[1] = None
        /\ (session' # session \/ last'.op = "close_connection")
           => UNCHANGED <<users, attendance, user_seq, att_seq>>
      ]_vars

\* users are stored, and a confirmed reset has closed the connection and
\* written the flag file: the page is back in stage 0 and the users are there
C29_Witness ==
    /\ session.page = "settings"
    /\ session.clicked = "Confirm Reset"
    /\ session.flag_writes = 1
    /\ session.reset_stage = 0
    /\ conn_seq[1] = 1 /\ ConnOf[1] = None
    /\ users # {}

\* C30: once the user has clicked "Delete User" and then ticked the
\* confirmation checkbox, delete_user is eventually called.
C30_ClickThenTickDeletes ==
    (session.event = "checkbox") ~> (last.op = "delete_user")

\* the page never calls delete_user: the run that the tick triggers finds
\* the button false
DeleteUserNeverCalled == last.op # "delete_user"

=============================================================================
